---- MODULE Spec2Model ----
(***************************************************************************)
(* Model of scripts/provision_gateway.py: the gateway provisioning,        *)
(* deprovisioning and status flows against the identity registry (EU1)     *)
(* and the radio-plane server (NAM1).                                      *)
(***************************************************************************)
EXTENDS Integers, Sequences, FiniteSets, TLC

\* ---------------------------------------------------------------- constants

\* provision_gateway.py:58, the gateway server address pointer
NAM1_HOST == "nam1.cloud.thethings.network"

\* a host that is not NAM1_HOST: the value of a drifted pointer
OTHER_HOST == "eu1.cloud.thethings.network"

\* a field that the body of a response does not carry
MISSING == "<missing>"

\* HTTP statuses the code compares with
HTTP_OK == 200
HTTP_NOT_FOUND == 404
\* the status _request reports when the request raised (line 125)
NO_STATUS == 0

\* how many operations (provision / deprovision / status) one behaviour starts
MaxRuns == 2

\* how many gateways the configuration file of a batch lists
BatchSize == 2

\* how many times the script is invoked where an invocation is followed alone
Invocations == 1

\* how many times provision is called on one GatewayProvisioner
ReuseCalls == 2

\* ------------------------------------------------------------- the transport

\* What came back on the wire for one request: the HTTP status of the answer
\* (NO_STATUS: requests raised a RequestException) and whether its body parsed.
WireOk == [status |-> HTTP_OK, json |-> TRUE]
WireBadJson == [status |-> HTTP_OK, json |-> FALSE]
WireNotFound == [status |-> HTTP_NOT_FOUND, json |-> TRUE]
WireRejected == [status |-> 403, json |-> TRUE]
WireDown == [status |-> NO_STATUS, json |-> TRUE]

\* TTNClient._request: the uniform result shape. ok is resp.ok (status below
\* 400) unless the request raised or the body did not parse.
Request(w) ==
    IF w.status = NO_STATUS THEN [status |-> NO_STATUS, ok |-> FALSE]
    ELSE IF ~w.json THEN [status |-> w.status, ok |-> FALSE]
    ELSE [status |-> w.status, ok |-> w.status < 400]

\* ------------------------------------------------------ the identity registry

\* The registry's record of the one gateway the model follows.
AbsentRecord ==
    [state |-> "absent", gateway_server_address |-> MISSING,
     antennas |-> FALSE, api_keys |-> 0]

RegistryStates ==
    {AbsentRecord, [AbsentRecord EXCEPT !.state = "deleted"]}
    \cup {[state |-> "present", gateway_server_address |-> a,
           antennas |-> FALSE, api_keys |-> 0] : a \in {NAM1_HOST, OTHER_HOST, MISSING}}

\* The registry accepted the request (a 2xx answer left the server): a faithful
\* registry has then applied it, and has applied nothing otherwise.
Accepted(w) == w.status = HTTP_OK

\* Answers a faithful registry can give, by request and record state; every
\* request can also be refused (403) or lost (transport error).
Failures == {WireRejected, WireDown}
ReadWires(reg) ==
    IF reg.state = "present" THEN {WireOk, WireBadJson} \cup Failures
    ELSE {WireNotFound} \cup Failures
CreateWires(reg) ==
    IF reg.state = "absent" THEN {WireOk, WireBadJson} \cup Failures
    ELSE Failures
WriteWires(reg) ==
    IF reg.state = "present" THEN {WireOk, WireBadJson} \cup Failures
    ELSE {WireNotFound} \cup Failures
PurgeWires(reg) ==
    IF reg.state = "deleted" THEN {WireOk, WireBadJson} \cup Failures
    ELSE IF reg.state = "absent" THEN {WireNotFound} \cup Failures
    ELSE Failures
\* The radio plane answers independently of the registry.
StatsWires == {WireOk, WireBadJson, WireNotFound} \cup Failures

\* body.get(field, default)
GetOr(value, default) == IF value = MISSING THEN default ELSE value

\* ------------------------------------------------------------------- state

VARIABLES
    registry,     \* the identity registry's record of the gateway
    op,           \* the operation in progress or last run
    pc,           \* its position
    args,         \* the arguments of the operation
    existing,     \* provision: the answer of the initial lookup
    results,      \* GatewayProvisioner.results, the step records
    credentials,  \* provision: the credentials dict
    calls,        \* the remote calls issued by the operation, in order
    files,        \* files written by the operation
    console,      \* what the operation printed that the claims are about
    retval,       \* deprovision_gateway's return value
    prev,         \* how the previous operation ended
    nruns         \* operations started so far

vars == <<registry, op, pc, args, existing, results, credentials, calls,
          files, console, retval, prev, nruns>>

NoResponse == [status |-> NO_STATUS, ok |-> FALSE, body |-> MISSING]
NoCredentials ==
    [lns_key |-> MISSING, lns_key_id |-> MISSING, lns_key_file |-> MISSING,
     cups_key |-> MISSING, cups_key_id |-> MISSING, cups_key_file |-> MISSING]
\* The credentials section of the provisioning log: the key ids, not the keys.
LogCredentialsWithKeys(c) == [lns_key_id |-> c.lns_key, cups_key_id |-> c.cups_key]
LogCredentials(c) == [lns_key_id |-> c.lns_key_id, cups_key_id |-> c.cups_key_id]

\* The log dict that _summary builds, writes and returns: the step records and
\* the credentials section.
ProvisionLog(steps, c) == [steps |-> steps, credentials |-> LogCredentials(c)]

\* How many times each file was written, and the log that was written and
\* returned.
NoFiles ==
    [lns_key_file |-> 0, cups_key_file |-> 0, provision_log |-> 0,
     log |-> ProvisionLog(<<>>, NoCredentials)]
NoArgs ==
    [latitude |-> FALSE, longitude |-> FALSE, generate_lns_key |-> FALSE,
     generate_cups_key |-> FALSE, fg_org_id |-> FALSE, purge |-> FALSE]
NoPrev ==
    [op |-> "none", succeeded |-> FALSE, gateway_server_address |-> MISSING,
     registry |-> [state |-> "absent", gateway_server_address |-> MISSING,
                   antennas |-> FALSE, api_keys |-> 0]]

\* provision's arguments the flow branches on: whether latitude / longitude /
\* fg_org_id were supplied, and the two credential flags.
ProvisionArgs ==
    {[NoArgs EXCEPT !.latitude = la, !.longitude = lo, !.generate_lns_key = l,
                    !.generate_cups_key = c, !.fg_org_id = f] :
        la \in BOOLEAN, lo \in BOOLEAN, l \in BOOLEAN, c \in BOOLEAN, f \in BOOLEAN}

Idle == pc \in {"idle", "returned", "raised"}

\* One issued remote call: the API, the field mask of an update, whether the
\* registry accepted it, the ok flag _request gave the caller and whether the
\* status it gave was not-found.
Call(api, mask, w) ==
    [api |-> api, mask |-> mask, accepted |-> Accepted(w), ok |-> Request(w).ok,
     not_found |-> Request(w).status = HTTP_NOT_FOUND]

\* GatewayProvisioner._record
Record(step, success, mentions) ==
    Append(results, [step |-> step, success |-> success, mentions |-> mentions])

\* How the operation that just ended went, kept for the next one to compare with.
Outcome ==
    [op |-> op,
     succeeded |-> pc = "returned" /\ \A i \in 1..Len(results) : results[i].success,
     gateway_server_address |-> registry.gateway_server_address,
     registry |-> registry]

Init ==
    /\ registry \in RegistryStates
    /\ op = "none"
    /\ pc = "idle"
    /\ args = NoArgs
    /\ existing = NoResponse
    /\ results = <<>>
    /\ credentials = NoCredentials
    /\ calls = <<>>
    /\ files = NoFiles
    /\ console = {}
    /\ retval = "none"
    /\ prev = [NoPrev EXCEPT !.registry = registry]
    /\ nruns = 0

\* ------------------------------------------------------------- provisioning

\* GatewayProvisioner(api_key).provision(...): a fresh provisioner per call,
\* as every caller in the script constructs one.
StartProvision ==
    /\ Idle
    /\ nruns < MaxRuns
    /\ \E a \in ProvisionArgs : args' = a
    /\ op' = "provision"
    /\ pc' = "check_existing"
    /\ existing' = NoResponse
    /\ results' = <<>>
    /\ credentials' = NoCredentials
    /\ calls' = <<>>
    /\ files' = NoFiles
    /\ console' = {}
    /\ retval' = "none"
    /\ prev' = Outcome
    /\ nruns' = nruns + 1
    /\ UNCHANGED registry

\* Step 1 records a step only when the lookup found the gateway.
CheckAlwaysRecorded(ok) == TRUE
CheckRecorded(ok) == ok

\* Step 1: get_gateway and the three-way branch on its answer.
CheckExisting ==
    /\ op = "provision"
    /\ pc = "check_existing"
    /\ \E w \in ReadWires(registry) :
        LET r == Request(w) IN
        /\ calls' = Append(calls, Call("get_gateway", {}, w))
        /\ existing' = [status |-> r.status, ok |-> r.ok,
                        body |-> IF r.ok THEN registry.gateway_server_address ELSE MISSING]
        /\ results' = IF CheckRecorded(r.ok)
                       THEN Record("check_existing", TRUE, {"gateway-record"})
                       ELSE results
    /\ pc' = "step2"
    /\ UNCHANGED <<registry, op, args, credentials, files, console, retval, prev, nruns>>

\* The payload of the registration call carries the pointer.
RegisterPayloadNoAddress == MISSING
RegisterPayloadAddress == NAM1_HOST

\* Where provision goes after the registration call: on, or (lines 289-292)
\* straight to the summary it returns.
AfterRegisterContinues(ok) == "set_location"
AfterRegister(ok) == IF ok THEN "set_location" ELSE "summary"

\* The branch of step 2 (line 263): register when the lookup was not ok.
NeedsRegistrationAlways(e) == TRUE
NeedsRegistration(e) == ~e.ok

\* Step 2, gateway not found by the lookup: register it.
Register ==
    /\ op = "provision"
    /\ pc = "step2"
    /\ NeedsRegistration(existing)
    /\ \E w \in CreateWires(registry) :
        LET r == Request(w) IN
        /\ calls' = Append(calls, Call("register_gateway", {}, w))
        /\ registry' = IF Accepted(w)
                       THEN [AbsentRecord EXCEPT !.state = "present",
                                !.gateway_server_address = RegisterPayloadAddress]
                       ELSE registry
        /\ results' = Record("register", r.ok,
                             IF r.ok THEN {"gateway-record"} ELSE {"error-body"})
        /\ pc' = AfterRegister(r.ok)
    /\ UNCHANGED <<op, args, existing, credentials, files, console, retval, prev, nruns>>

\* The pointer update of step 2: the fields it sends and the mask naming them.
ServerAddressUpdateWideMask ==
    [gateway |-> [gateway_server_address |-> NAM1_HOST, antennas |-> FALSE],
     field_mask |-> {"gateway_server_address", "antennas"}]
ServerAddressUpdate ==
    [gateway |-> [gateway_server_address |-> NAM1_HOST],
     field_mask |-> {"gateway_server_address"}]

\* The location update of step 3.
LocationUpdate ==
    [gateway |-> [antennas |-> TRUE], field_mask |-> {"antennas"}]

\* update_gateway on a faithful registry: an accepted update sets the fields
\* its mask names, from the payload, and leaves every other field alone.
ApplyUpdate(reg, u) ==
    [reg EXCEPT
        !.gateway_server_address =
            IF "gateway_server_address" \in u.field_mask
            THEN u.gateway.gateway_server_address ELSE @,
        !.antennas =
            IF "antennas" \in u.field_mask THEN u.gateway.antennas ELSE @]

\* The test of line 297 on the pointer the lookup returned.
PointerNeverCorrect(gw_server) == FALSE
PointerIsCorrect(gw_server) == gw_server = NAM1_HOST

\* Step 2, gateway found by the lookup: check the pointer, update it if it
\* is not NAM1_HOST.
UpdateServerAddress ==
    /\ op = "provision"
    /\ pc = "step2"
    /\ ~NeedsRegistration(existing)
    /\ LET gw_server == GetOr(existing.body, "") IN
       IF ~PointerIsCorrect(gw_server)
       THEN \E w \in WriteWires(registry) :
               LET r == Request(w) IN
               /\ calls' = Append(calls,
                      Call("update_gateway", ServerAddressUpdate.field_mask, w))
               /\ registry' = IF Accepted(w)
                              THEN ApplyUpdate(registry, ServerAddressUpdate)
                              ELSE registry
               /\ results' = Record("update_server_address", r.ok,
                                     IF r.ok THEN {} ELSE {"error-body"})
       ELSE UNCHANGED <<calls, registry, results>>
    /\ pc' = "set_location"
    /\ UNCHANGED <<op, args, existing, credentials, files, console, retval, prev, nruns>>

\* Step 3 runs when latitude and longitude were both supplied (line 314).
LocationRequestedEither(a) == a.latitude \/ a.longitude
LocationRequested(a) == a.latitude /\ a.longitude

\* What step 3 records for the answer of its update.
LocationSuccessAlways(r) == TRUE
LocationSuccess(r) == r.ok

\* Step 3: the antenna location, when both coordinates were supplied.
SetLocation ==
    /\ op = "provision"
    /\ pc = "set_location"
    /\ IF LocationRequested(args)
       THEN \E w \in WriteWires(registry) :
               LET r == Request(w) IN
               /\ calls' = Append(calls,
                      Call("update_gateway", LocationUpdate.field_mask, w))
               /\ registry' = IF Accepted(w)
                              THEN ApplyUpdate(registry, LocationUpdate)
                              ELSE registry
               /\ results' = Record("set_location", LocationSuccess(r),
                                     IF LocationSuccess(r) THEN {} ELSE {"error-body"})
       ELSE UNCHANGED <<calls, registry, results>>
    /\ pc' = "create_lns_key"
    /\ UNCHANGED <<op, args, existing, credentials, files, console, retval, prev, nruns>>

\* create_gateway_api_key on a faithful registry: one more key on the record.
ApplyCreateKey(reg) == [reg EXCEPT !.api_keys = @ + 1]

\* Step 4 runs when generate_lns_key is set.
GenerateLnsAlways(a) == TRUE
GenerateLns(a) == a.generate_lns_key

\* Where provision goes after the LNS key call: to the key file when the key
\* was created, else to step 5; the call is not repeated.
AfterLnsKeyRetries(ok) == IF ok THEN "write_lns_key" ELSE "create_lns_key"
AfterLnsKey(ok) == IF ok THEN "write_lns_key" ELSE "create_cups_key"

\* Step 4: the LNS key.
CreateLnsKey ==
    /\ op = "provision"
    /\ pc = "create_lns_key"
    /\ IF GenerateLns(args)
       THEN \E w \in WriteWires(registry) :
               LET r == Request(w) IN
               /\ calls' = Append(calls, Call("create_gateway_api_key", {"lns"}, w))
               /\ registry' = IF Accepted(w) THEN ApplyCreateKey(registry) ELSE registry
               /\ IF r.ok
                  THEN /\ credentials' = [credentials EXCEPT
                                             !.lns_key = "lns-secret",
                                             !.lns_key_id = "lns-id"]
                       /\ results' = Record("create_lns_key", TRUE, {"lns-id"})
                  ELSE /\ credentials' = credentials
                       /\ results' = Record("create_lns_key", FALSE, {"error-body"})
               /\ pc' = AfterLnsKey(r.ok)
       ELSE /\ pc' = "create_cups_key"
            /\ UNCHANGED <<calls, registry, results, credentials>>
    /\ UNCHANGED <<op, args, existing, files, console, retval, prev, nruns>>

\* Step 4b: Path.write_text of the lns.key file; it writes the file or raises,
\* and nothing in provision catches what it raises.
WriteLnsKeyFile ==
    /\ op = "provision"
    /\ pc = "write_lns_key"
    /\ \/ /\ files' = [files EXCEPT !.lns_key_file = @ + 1]
          /\ credentials' = [credentials EXCEPT !.lns_key_file = "lns.key"]
          /\ pc' = "create_cups_key"
       \/ /\ pc' = "raised"
          /\ UNCHANGED <<files, credentials>>
    /\ UNCHANGED <<registry, op, args, existing, results, calls, console, retval,
                   prev, nruns>>

\* Step 5: the CUPS key.
CreateCupsKey ==
    /\ op = "provision"
    /\ pc = "create_cups_key"
    /\ IF args.generate_cups_key
       THEN \E w \in WriteWires(registry) :
               LET r == Request(w) IN
               /\ calls' = Append(calls, Call("create_gateway_api_key", {"cups"}, w))
               /\ registry' = IF Accepted(w) THEN ApplyCreateKey(registry) ELSE registry
               /\ IF r.ok
                  THEN /\ credentials' = [credentials EXCEPT
                                             !.cups_key = "cups-secret",
                                             !.cups_key_id = "cups-id"]
                       /\ results' = Record("create_cups_key", TRUE, {"cups-id"})
                       /\ pc' = "write_cups_key"
                  ELSE /\ credentials' = credentials
                       /\ results' = Record("create_cups_key", FALSE, {"error-body"})
                       /\ pc' = "verify_nam1"
       ELSE /\ pc' = "verify_nam1"
            /\ UNCHANGED <<calls, registry, results, credentials>>
    /\ UNCHANGED <<op, args, existing, files, console, retval, prev, nruns>>

\* Step 5b: Path.write_text of the cups.key file.
WriteCupsKeyFile ==
    /\ op = "provision"
    /\ pc = "write_cups_key"
    /\ \/ /\ files' = [files EXCEPT !.cups_key_file = @ + 1]
          /\ credentials' = [credentials EXCEPT !.cups_key_file = "cups.key"]
          /\ pc' = "verify_nam1"
       \/ /\ pc' = "raised"
          /\ UNCHANGED <<files, credentials>>
    /\ UNCHANGED <<registry, op, args, existing, results, calls, console, retval,
                   prev, nruns>>

\* Step 6 records success for an ok answer and for not-found (not connected yet).
VerifySuccessOnlyOk(stats) == stats.ok
VerifySuccess(stats) == stats.ok \/ stats.status = HTTP_NOT_FOUND

\* Step 6: the connection stats of the radio plane; not-found counts as success.
VerifyNam1 ==
    /\ op = "provision"
    /\ pc = "verify_nam1"
    /\ \E w \in StatsWires :
        LET stats == Request(w) IN
        /\ calls' = Append(calls, Call("get_gateway_connection_stats", {}, w))
        /\ results' = Record("verify_nam1", VerifySuccess(stats),
                             IF VerifySuccess(stats) THEN {} ELSE {"error-body"})
    /\ pc' = "store_db"
    /\ UNCHANGED <<registry, op, args, existing, credentials, files, console, retval,
                   prev, nruns>>

\* _store_in_supabase: False when the connection settings are unset, when the
\* package is missing or the upsert raises; else whether the upsert returned data.
StoreOutcomes == {"unset", "stored", "error"}

\* After step 7 come the connection instructions and the summary; no
\* earlier step is taken again.
AfterStoreDbVerifiesAgain == "verify_nam1"
AfterStoreDb == "print_connection_info"

\* Step 7: the audit store, when fg_org_id was supplied.
StoreDb ==
    /\ op = "provision"
    /\ pc = "store_db"
    /\ IF args.fg_org_id
       THEN \E o \in StoreOutcomes :
               /\ calls' = IF o = "unset" THEN calls
                           ELSE Append(calls,
                                  [api |-> "supabase_upsert", mask |-> {},
                                   accepted |-> o = "stored", ok |-> o = "stored",
                                   not_found |-> FALSE])
               /\ results' = Record("store_db", o = "stored", {})
       ELSE UNCHANGED <<calls, results>>
    /\ pc' = AfterStoreDb
    /\ UNCHANGED <<registry, op, args, existing, credentials, files, console, retval,
                   prev, nruns>>

\* What _print_connection_info shows of a key: its first 30 and last 10
\* characters (the whole key again when it is at most 40 long).
Shown(key) == IF key = MISSING THEN {} ELSE {<<key, "head">>, <<key, "tail">>}

\* Step 8: the connection instructions.
PrintConnectionInfo ==
    /\ op = "provision"
    /\ pc = "print_connection_info"
    /\ console' = console \cup Shown(credentials.lns_key) \cup Shown(credentials.cups_key)
    /\ pc' = "summary"
    /\ UNCHANGED <<registry, op, args, existing, results, credentials, calls, files,
                   retval, prev, nruns>>

\* The counts of the summary line: steps that succeeded, steps recorded.
FailureCount(rs) == Cardinality({i \in 1..Len(rs) : ~rs[i].success})
SuccessCount(rs) == Cardinality({i \in 1..Len(rs) : rs[i].success})
TotalCount(rs) == Len(rs)

\* _summary: count and print the summary line, write
\* <gateway_id>_provision_log.json, return the log. write_text writes the
\* file or raises.
Summary ==
    /\ op = "provision"
    /\ pc = "summary"
    /\ console' = console
           \cup {<<"Summary", SuccessCount(results), TotalCount(results)>>}
    /\ \/ /\ files' = [files EXCEPT !.provision_log = @ + 1,
                                     !.log = ProvisionLog(results, credentials)]
          /\ pc' = "returned"
       \/ /\ pc' = "raised"
          /\ UNCHANGED files
    /\ UNCHANGED <<registry, op, args, existing, results, credentials, calls,
                   retval, prev, nruns>>

\* ----------------------------------------------------------- deprovisioning

\* deprovision_gateway(api_key, gateway_id, purge)
StartDeprovision ==
    /\ Idle
    /\ nruns < MaxRuns
    /\ \E p \in BOOLEAN : args' = [NoArgs EXCEPT !.purge = p]
    /\ op' = "deprovision"
    /\ pc' = "d_check"
    /\ existing' = NoResponse
    /\ results' = <<>>
    /\ credentials' = NoCredentials
    /\ calls' = <<>>
    /\ files' = NoFiles
    /\ console' = {}
    /\ retval' = "none"
    /\ prev' = Outcome
    /\ nruns' = nruns + 1
    /\ UNCHANGED registry

\* Where deprovision_gateway goes after the entry lookup.
AfterCheckContinues(ok) == "d_delete"
AfterCheck(ok) == IF ~ok THEN "returned" ELSE "d_delete"

\* Step 1: check that the gateway exists; return False when the lookup fails.
DeprovisionCheck ==
    /\ op = "deprovision"
    /\ pc = "d_check"
    /\ \E w \in ReadWires(registry) :
        LET check == Request(w) IN
        /\ calls' = Append(calls, Call("get_gateway", {}, w))
        /\ IF ~check.ok
           THEN /\ console' = console \cup {"Check: Gateway not found"}
                /\ retval' = "False"
           ELSE /\ console' = console \cup {"Check: Found gateway"}
                /\ retval' = retval
        /\ pc' = AfterCheck(check.ok)
    /\ UNCHANGED <<registry, op, args, existing, results, credentials, files, prev, nruns>>

\* The test deprovision_gateway applies to the answer of delete and of purge.
DeleteSucceededAlways(r) == TRUE
DeleteSucceeded(r) == r.ok \/ r.status = HTTP_OK

\* Step 2: soft-delete; return False when it fails.
DeprovisionDelete ==
    /\ op = "deprovision"
    /\ pc = "d_delete"
    /\ \E w \in WriteWires(registry) :
        LET delete == Request(w) IN
        /\ calls' = Append(calls, Call("delete_gateway", {}, w))
        /\ registry' = IF Accepted(w) THEN [registry EXCEPT !.state = "deleted"]
                       ELSE registry
        /\ IF DeleteSucceeded(delete)
           THEN /\ console' = console \cup {"Delete: soft-deleted"}
                /\ retval' = retval
                /\ pc' = IF args.purge THEN "d_purge" ELSE "d_verify"
           ELSE /\ console' = console \cup {"Delete: Failed"}
                /\ retval' = "False"
                /\ pc' = "returned"
    /\ UNCHANGED <<op, args, existing, results, credentials, files, prev, nruns>>

\* Where deprovision_gateway goes after the purge call.
AfterPurgeContinues(succeeded) == "d_verify"
AfterPurge(succeeded) == IF succeeded THEN "d_verify" ELSE "returned"

\* Step 3: purge, when requested; return False when it fails.
DeprovisionPurge ==
    /\ op = "deprovision"
    /\ pc = "d_purge"
    /\ \E w \in PurgeWires(registry) :
        LET purge_result == Request(w) IN
        /\ calls' = Append(calls, Call("purge_gateway", {}, w))
        /\ registry' = IF Accepted(w) THEN AbsentRecord ELSE registry
        /\ IF DeleteSucceeded(purge_result)
           THEN /\ console' = console \cup {"Purge: hard-deleted"}
                /\ retval' = retval
           ELSE /\ console' = console \cup {"Purge: Failed"}
                /\ retval' = "False"
        /\ pc' = AfterPurge(DeleteSucceeded(purge_result))
    /\ UNCHANGED <<op, args, existing, results, credentials, files, prev, nruns>>

\* What step 4 reports for the answer of the re-query.
VerifyMessageAlwaysConfirmed(verify) == "Verify: Gateway confirmed removed"
VerifyMessage(verify) ==
    IF verify.status = HTTP_NOT_FOUND
    THEN "Verify: Gateway confirmed removed"
    ELSE "Verify: Gateway may still exist"

\* What deprovision_gateway returns after the re-query: True, whatever it said.
VerifyResultNeedsNotFound(verify) ==
    IF verify.status = HTTP_NOT_FOUND THEN "True" ELSE "False"
VerifyResult(verify) == "True"

\* Answers to the re-query: those of a read, and the record still being found
\* while the registry's delete has not reached the replica that answers
\* (the case line 592 warns about).
RequeryWires(reg) == ReadWires(reg) \cup {WireOk}

\* Step 4: re-query the record, report what it says, return True.
DeprovisionVerify ==
    /\ op = "deprovision"
    /\ pc = "d_verify"
    /\ \E w \in RequeryWires(registry) :
        LET verify == Request(w) IN
        /\ calls' = Append(calls, Call("get_gateway", {}, w))
        /\ existing' = [status |-> verify.status, ok |-> verify.ok, body |-> MISSING]
        /\ console' = console
               \cup {VerifyMessage(verify)}
               \cup {"deprovisioned successfully"}
        /\ retval' = VerifyResult(verify)
    /\ pc' = "returned"
    /\ UNCHANGED <<registry, op, args, results, credentials, files, prev, nruns>>

\* ------------------------------------------------------------- status check

\* check_gateway_status(api_key, gateway_id)
StartStatus ==
    /\ Idle
    /\ nruns < MaxRuns
    /\ args' = NoArgs
    /\ op' = "status"
    /\ pc' = "s_eu1"
    /\ existing' = NoResponse
    /\ results' = <<>>
    /\ credentials' = NoCredentials
    /\ calls' = <<>>
    /\ files' = NoFiles
    /\ console' = {}
    /\ retval' = "none"
    /\ prev' = Outcome
    /\ nruns' = nruns + 1
    /\ UNCHANGED registry

\* The cross-check of lines 617-619 on the pointer of the fetched record
\* (the empty string when the record has none).
StatusPointerMismatchIfSet(gw_server) == gw_server \notin {NAM1_HOST, ""}
StatusPointerMismatch(gw_server) == gw_server # NAM1_HOST

\* The registration on the identity server, and the pointer cross-check.
StatusIdentity ==
    /\ op = "status"
    /\ pc = "s_eu1"
    /\ \E w \in ReadWires(registry) :
        LET gw == Request(w) IN
        /\ calls' = Append(calls, Call("get_gateway", {}, w))
        /\ existing' = [status |-> gw.status, ok |-> gw.ok,
                        body |-> IF gw.ok THEN registry.gateway_server_address ELSE MISSING]
        /\ IF gw.ok
           THEN /\ console' = console \cup {"EU1: Registered"}
                     \cup (IF StatusPointerMismatch(
                                  GetOr(registry.gateway_server_address, ""))
                           THEN {"EU1: gateway_server_address should be NAM1_HOST"}
                           ELSE {})
                /\ pc' = "s_nam1"
           ELSE /\ console' = console \cup {"EU1: Not found"}
                /\ pc' = "returned"
    /\ UNCHANGED <<registry, op, args, results, credentials, files, retval, prev, nruns>>

\* The connection on the gateway server.
StatusConnection ==
    /\ op = "status"
    /\ pc = "s_nam1"
    /\ \E w \in StatsWires :
        LET stats == Request(w) IN
        /\ calls' = Append(calls, Call("get_gateway_connection_stats", {}, w))
        /\ console' = console
               \cup {IF stats.ok THEN "NAM1: CONNECTED"
                     ELSE IF stats.status = HTTP_NOT_FOUND THEN "NAM1: NOT connected"
                     ELSE "NAM1: Could not check"}
    /\ pc' = "s_keys"
    /\ UNCHANGED <<registry, op, args, existing, results, credentials, files, retval,
                   prev, nruns>>

\* The call of the last section: it lists the keys of the gateway.
StatusKeysCallCreates == "create_gateway_api_key"
StatusKeysCall == "list_gateway_api_keys"

\* The API keys of the gateway.
StatusKeys ==
    /\ op = "status"
    /\ pc = "s_keys"
    /\ \E w \in ReadWires(registry) :
        LET keys == Request(w) IN
        /\ calls' = Append(calls, Call(StatusKeysCall, {}, w))
        /\ console' = console
               \cup {IF keys.ok THEN "Keys: found" ELSE "Keys: Could not list keys"}
    /\ pc' = "returned"
    /\ UNCHANGED <<registry, op, args, existing, results, credentials, files, retval,
                   prev, nruns>>

Next ==
    \/ StartProvision
    \/ CheckExisting
    \/ Register
    \/ UpdateServerAddress
    \/ SetLocation
    \/ CreateLnsKey
    \/ WriteLnsKeyFile
    \/ CreateCupsKey
    \/ WriteCupsKeyFile
    \/ VerifyNam1
    \/ StoreDb
    \/ PrintConnectionInfo
    \/ Summary
    \/ StartDeprovision
    \/ DeprovisionCheck
    \/ DeprovisionDelete
    \/ DeprovisionPurge
    \/ DeprovisionVerify
    \/ StartStatus
    \/ StatusIdentity
    \/ StatusConnection
    \/ StatusKeys

Spec == Init /\ [][Next]_vars

\* ------------------------------------------------------- one invocation

\* main's dispatch (lines 914-958): one invocation of the script runs one
\* operation on the gateway, chosen by its arguments.
StartInvocation ==
    /\ nruns < Invocations
    /\ \/ StartProvision
       \/ StartDeprovision
       \/ StartStatus

InvocationNext ==
    \/ StartInvocation
    \/ CheckExisting
    \/ Register
    \/ UpdateServerAddress
    \/ SetLocation
    \/ CreateLnsKey
    \/ WriteLnsKeyFile
    \/ CreateCupsKey
    \/ WriteCupsKeyFile
    \/ VerifyNam1
    \/ StoreDb
    \/ PrintConnectionInfo
    \/ Summary
    \/ DeprovisionCheck
    \/ DeprovisionDelete
    \/ DeprovisionPurge
    \/ DeprovisionVerify
    \/ StatusIdentity
    \/ StatusConnection
    \/ StatusKeys

InvocationSpec == Init /\ [][InvocationNext]_vars

\* ------------------------------------------------------------ batch mode

\* batch_provision: one turn of its loop. It builds a fresh GatewayProvisioner
\* and calls provision for the next gateway of the file, whose record in the
\* registry is another one; the loop goes on when provision has returned and
\* is left with the exception when provision raised.
BatchNextGateway ==
    /\ pc \in {"idle", "returned"}
    /\ nruns < BatchSize
    /\ \E a \in ProvisionArgs : args' = a
    /\ registry' \in RegistryStates
    /\ op' = "provision"
    /\ pc' = "check_existing"
    /\ existing' = NoResponse
    /\ results' = <<>>
    /\ credentials' = NoCredentials
    /\ calls' = <<>>
    /\ files' = NoFiles
    /\ console' = {}
    /\ retval' = "none"
    /\ prev' = [Outcome EXCEPT !.registry = registry']
    /\ nruns' = nruns + 1

BatchNext ==
    \/ BatchNextGateway
    \/ CheckExisting
    \/ Register
    \/ UpdateServerAddress
    \/ SetLocation
    \/ CreateLnsKey
    \/ WriteLnsKeyFile
    \/ CreateCupsKey
    \/ WriteCupsKeyFile
    \/ VerifyNam1
    \/ StoreDb
    \/ PrintConnectionInfo
    \/ Summary

BatchSpec == Init /\ [][BatchNext]_vars

\* ------------------------------------------------------- what the claims read

ProvisionEnded == op = "provision" /\ pc \in {"returned", "raised"}
AllStepsSucceeded == \A i \in 1..Len(results) : results[i].success
StepRecorded(step) == \E i \in 1..Len(results) : results[i].step = step
StepFailed(step) ==
    \E i \in 1..Len(results) : results[i].step = step /\ ~results[i].success
Issued(api) == {i \in 1..Len(calls) : calls[i].api = api}
PointerUpdates ==
    {i \in Issued("update_gateway") : "gateway_server_address" \in calls[i].mask}
LocationUpdates == {i \in Issued("update_gateway") : "antennas" \in calls[i].mask}
KeyCalls(kind) == {i \in Issued("create_gateway_api_key") : calls[i].mask = {kind}}
RegistrationFailed == \E i \in Issued("register_gateway") : ~calls[i].ok
LookupDone == pc \notin {"idle", "check_existing"}
Step2Done == pc \notin {"idle", "check_existing", "step2"}

\* ------------------------------------------------------------------ claims

\* C1: whenever provision ends with every recorded step successful, the
\* registry's record exists and its gateway_server_address is NAM1_HOST,
\* whether this run created the record or found it (pointer right, wrong or
\* missing).
C1_PointerCorrectAfterSuccess ==
    (ProvisionEnded /\ AllStepsSucceeded)
        => /\ registry.state = "present"
           /\ registry.gateway_server_address = NAM1_HOST

\* C1 witness: a run on an existing record with a wrong pointer returned with
\* every step successful, the pointer update among them.
C1_Witness ==
    /\ op = "provision" /\ pc = "returned" /\ AllStepsSucceeded
    /\ StepRecorded("update_server_address")
    /\ existing.body # NAM1_HOST

\* C2, as claimed: once the initial lookup failed with anything but
\* not-found, the lookup stays the only remote call of the run.
C2_LookupErrorIsTerminal ==
    (op = "provision" /\ LookupDone
        /\ ~existing.ok /\ existing.status # HTTP_NOT_FOUND)
        => Len(calls) = 1

\* C3: after a failed registration call no location update, credential
\* creation, radio-plane query or audit-store write is issued, and no key
\* file is written.
C3_RegistrationFailureHalts ==
    op = "provision" =>
        \A i \in Issued("register_gateway") :
            ~calls[i].ok =>
                /\ \A j \in (i + 1)..Len(calls) :
                      calls[j].api \notin {"update_gateway", "create_gateway_api_key",
                                           "get_gateway_connection_stats",
                                           "supabase_upsert"}
                /\ files.lns_key_file = 0
                /\ files.cups_key_file = 0

\* C3 witness: a run whose registration failed has returned, with credentials
\* and a location asked for.
C3_Witness ==
    /\ op = "provision" /\ pc = "returned" /\ RegistrationFailed
    /\ args.generate_lns_key /\ args.latitude /\ args.longitude /\ args.fg_org_id

\* C4: when the lookup finds the record with a pointer other than NAM1_HOST,
\* the run issues exactly one update naming the pointer, its field mask is
\* exactly {gateway_server_address}, no registration call is issued, and
\* whatever the update answered the run goes on to the later steps: it is
\* not at its summary until the radio-plane query has been issued.
C4_DriftCorrection ==
    (op = "provision" /\ Step2Done /\ existing.ok
        /\ GetOr(existing.body, "") # NAM1_HOST)
        => /\ Cardinality(PointerUpdates) = 1
           /\ \A i \in PointerUpdates : calls[i].mask = {"gateway_server_address"}
           /\ Issued("register_gateway") = {}
           /\ pc \in {"store_db", "print_connection_info", "summary", "returned"}
                 => Issued("get_gateway_connection_stats") # {}

\* C4 witness: a run on a drifted record has issued the pointer update, the
\* location update and a credential call, and has returned.
C4_Witness ==
    /\ op = "provision" /\ pc = "returned"
    /\ existing.ok /\ existing.body = OTHER_HOST
    /\ PointerUpdates # {} /\ LocationUpdates # {} /\ KeyCalls("lns") # {}

\* C5: in a provision run that follows a provision run which returned with
\* every step successful, a lookup that the registry answers finds the
\* pointer equal to NAM1_HOST; the run issues no registration call and no
\* pointer update, and the pointer stays what the first run left.
C5_Idempotence ==
    (op = "provision" /\ LookupDone /\ existing.ok
        /\ prev.op = "provision" /\ prev.succeeded)
        => /\ existing.body = NAM1_HOST
           /\ Issued("register_gateway") = {}
           /\ PointerUpdates = {}
           /\ registry.gateway_server_address = prev.gateway_server_address
           /\ prev.gateway_server_address = NAM1_HOST

\* C5 witness: the second of two provision runs has returned, the first
\* having succeeded by registering or repairing the record.
C5_Witness ==
    /\ op = "provision" /\ pc = "returned" /\ existing.ok
    /\ prev.op = "provision" /\ prev.succeeded
    /\ nruns = 2

\* C6, as claimed: a provision run whose registration did not fail has, when
\* it ends, issued the radio-plane query and recorded the verify_nam1 step.
C6_VerificationAlwaysRuns ==
    (ProvisionEnded /\ ~RegistrationFailed)
        => /\ Issued("get_gateway_connection_stats") # {}
           /\ StepRecorded("verify_nam1")

\* C7, as claimed: a run whose pointer update failed has recorded the failed
\* step and, when it ends, has issued the location update (coordinates
\* supplied) and every configured credential creation.
C7_PointerUpdateFailureNonFatal ==
    (ProvisionEnded /\ \E i \in PointerUpdates : ~calls[i].ok)
        => /\ StepFailed("update_server_address")
           /\ (args.latitude /\ args.longitude) => LocationUpdates # {}
           /\ args.generate_lns_key => KeyCalls("lns") # {}
           /\ args.generate_cups_key => KeyCalls("cups") # {}

\* C8, as claimed: in a run whose registration did not fail, each credential
\* whose flag is set has had its create call issued by the end of the run,
\* whether the location update succeeded, failed or was skipped.
C8_LocationNeverBlocksCredentials ==
    (ProvisionEnded /\ ~RegistrationFailed)
        => /\ args.generate_lns_key => KeyCalls("lns") # {}
           /\ args.generate_cups_key => KeyCalls("cups") # {}

\* C9: in deprovision_gateway every purge call comes after a soft-delete
\* call of the same run that the registry accepted; a soft-delete that was
\* not accepted is the last call of the run, which returns False.
C9_PurgeOnlyAfterDelete ==
    op = "deprovision" =>
        /\ \A i \in Issued("purge_gateway") :
              \E j \in Issued("delete_gateway") : j < i /\ calls[j].accepted
        /\ \A j \in Issued("delete_gateway") :
              ~calls[j].accepted =>
                  /\ j = Len(calls)
                  /\ pc = "returned"
                  /\ retval = "False"
                  /\ registry.state # "deleted"

\* C9 witness: a purge has been issued.
C9_Witness ==
    /\ op = "deprovision"
    /\ Issued("purge_gateway") # {}
    /\ registry.state = "deleted"

\* C10, as claimed: deprovision_gateway returns True only when the re-query
\* after the delete answered not-found.
C10_SuccessOnlyWhenConfirmedAbsent ==
    (op = "deprovision" /\ retval = "True") => existing.status = HTTP_NOT_FOUND

\* C10, amended: deprovision_gateway returns True only after the registry
\* accepted the soft-delete (and the purge, when requested) and the re-query
\* has been issued as the last call; it prints the confirmation exactly when
\* the re-query answered not-found and the warning otherwise, and the answer
\* does not decide the result.
C10_SuccessOnlyAfterRequery ==
    (op = "deprovision" /\ retval = "True")
        => /\ Len(calls) >= 3
           /\ calls[Len(calls)].api = "get_gateway"
           /\ \E j \in Issued("delete_gateway") : calls[j].accepted
           /\ args.purge => \E i \in Issued("purge_gateway") : calls[i].accepted
           /\ "Verify: Gateway confirmed removed" \in console
                 <=> existing.status = HTTP_NOT_FOUND
           /\ "Verify: Gateway may still exist" \in console
                 <=> existing.status # HTTP_NOT_FOUND
           /\ "deprovisioned successfully" \in console

\* C10 witness: True was returned although the re-query did not answer
\* not-found.
C10_Witness ==
    /\ op = "deprovision" /\ retval = "True"
    /\ existing.status # HTTP_NOT_FOUND

\* ------------------------------------------------- claims, second group

Requeried == op = "deprovision" /\ Cardinality(Issued("get_gateway")) = 2
IssuedSecrets == {credentials.lns_key, credentials.cups_key} \ {MISSING}
LogTokens(log) ==
    UNION {log.steps[i].mentions : i \in 1..Len(log.steps)}
        \cup {log.credentials.lns_key_id, log.credentials.cups_key_id}
StepNames == [i \in 1..Len(results) |-> results[i].step]
RegistryMutations ==
    {"register_gateway", "update_gateway", "create_gateway_api_key",
     "delete_gateway", "purge_gateway"}
AcceptedKeyCalls ==
    Cardinality({i \in Issued("create_gateway_api_key") : calls[i].accepted})
PastCredentialSteps ==
    /\ ~RegistrationFailed
    /\ pc \in {"verify_nam1", "store_db", "print_connection_info", "summary", "returned"}

\* C11: the re-query of deprovision_gateway is its last call, issued after the
\* delete (and the purge, when requested); whatever it answers the run has
\* returned True, with the confirmation printed for not-found and only the
\* warning printed when the record is still found.
C11_RequeryNeverFails ==
    Requeried =>
        /\ calls[Len(calls)].api = "get_gateway"
        /\ Issued("delete_gateway") # {}
        /\ args.purge => Issued("purge_gateway") # {}
        /\ pc = "returned"
        /\ retval = "True"
        /\ existing.status = HTTP_NOT_FOUND =>
              /\ "Verify: Gateway confirmed removed" \in console
              /\ "Verify: Gateway may still exist" \notin console
        /\ existing.ok =>
              /\ "Verify: Gateway may still exist" \in console
              /\ "Verify: Gateway confirmed removed" \notin console

\* C11 witness: after delete and purge the re-query still found the record,
\* and the run returned True.
C11_Witness ==
    /\ Requeried /\ args.purge /\ existing.ok /\ retval = "True"

\* C12: when the entry lookup of deprovision_gateway does not find the
\* gateway, the lookup is the only call of the run, which reports 'not found'
\* and returns False, and the registry's record is what it was at the start.
C12_NotFoundAtEntryAborts ==
    (op = "deprovision" /\ Len(calls) >= 1 /\ ~calls[1].ok)
        => /\ Len(calls) = 1
           /\ pc = "returned"
           /\ retval = "False"
           /\ "Check: Gateway not found" \in console
           /\ registry = prev.registry

\* C12 witness: the entry lookup answered not-found and the run has returned.
C12_Witness ==
    /\ op = "deprovision" /\ pc = "returned"
    /\ Len(calls) = 1 /\ calls[1].not_found

\* C13: a purge that fails is the last call of the run, which returns False;
\* the record stays soft-deleted, and deprovision_gateway issues no call
\* other than lookups, the delete and the purge.
C13_PurgeFailureNotUndone ==
    op = "deprovision" =>
        /\ \A i \in Issued("purge_gateway") :
              ~calls[i].accepted =>
                  /\ i = Len(calls)
                  /\ pc = "returned"
                  /\ retval = "False"
                  /\ registry.state = "deleted"
        /\ \A j \in 1..Len(calls) :
              calls[j].api \in {"get_gateway", "delete_gateway", "purge_gateway"}

\* C13 witness: a purge was refused after an accepted soft-delete.
C13_Witness ==
    /\ op = "deprovision" /\ pc = "returned"
    /\ \E i \in Issued("purge_gateway") : ~calls[i].accepted
    /\ \E j \in Issued("delete_gateway") : calls[j].accepted

\* C14: neither the step records nor the log that _summary writes and returns
\* carry the secret of a credential issued in the run; the log carries the
\* credential's id.
C14_LogHasNoSecret ==
    op = "provision" =>
        /\ \A secret \in IssuedSecrets :
              /\ secret \notin LogTokens(files.log)
              /\ secret \notin LogTokens(ProvisionLog(results, credentials))
        /\ pc = "returned" =>
              /\ files.log.steps = results
              /\ files.log.credentials.lns_key_id = credentials.lns_key_id
              /\ files.log.credentials.cups_key_id = credentials.cups_key_id

\* C14 witness: a run that issued both credentials has written its log.
C14_Witness ==
    /\ op = "provision" /\ pc = "returned" /\ files.provision_log = 1
    /\ credentials.lns_key # MISSING /\ credentials.cups_key # MISSING
    /\ "lns-id" \in LogTokens(files.log)

\* C15, as claimed: in a run that returned, each issued secret was written to
\* its key file once, and neither the log nor what was printed to the
\* operator carries the secret or a part of it.
C15_SecretOnlyInKeyFile ==
    (op = "provision" /\ pc = "returned") =>
        /\ credentials.lns_key # MISSING => files.lns_key_file = 1
        /\ credentials.cups_key # MISSING => files.cups_key_file = 1
        /\ \A secret \in IssuedSecrets :
              /\ secret \notin LogTokens(files.log)
              /\ \A part \in {"head", "tail"} : <<secret, part>> \notin console

\* C16, as claimed: a provision run that has ended has executed _summary.
C16_AlwaysReachesSummary ==
    ProvisionEnded =>
        <<"Summary", SuccessCount(results), TotalCount(results)>> \in console

\* C17: the radio-plane query is recorded as exactly one verify_nam1 step,
\* successful exactly when the answer was ok or not-found, and no mutating
\* call to the identity registry follows it.
C17_VerifyOutcome ==
    op = "provision" =>
        \A i \in Issued("get_gateway_connection_stats") :
            /\ Cardinality({k \in 1..Len(results) : results[k].step = "verify_nam1"}) = 1
            /\ \A k \in 1..Len(results) :
                  results[k].step = "verify_nam1" =>
                      (results[k].success <=> (calls[i].ok \/ calls[i].not_found))
            /\ \A j \in (i + 1)..Len(calls) : calls[j].api \notin RegistryMutations

\* C17 witness: the radio plane answered not-found, the step was recorded as
\* successful and the run returned after an audit-store write.
C17_Witness ==
    /\ op = "provision" /\ pc = "returned"
    /\ \E i \in Issued("get_gateway_connection_stats") : calls[i].not_found
    /\ ~StepFailed("verify_nam1")
    /\ Issued("supabase_upsert") # {}

\* The conditions of scenario A, on a run that returned.
ScenarioA ==
    /\ op = "provision" /\ pc = "returned"
    /\ prev.registry.state = "absent"
    /\ existing.status = HTTP_NOT_FOUND
    /\ \E i \in Issued("register_gateway") : calls[i].ok
    /\ ~args.latitude /\ ~args.longitude
    /\ args.generate_lns_key /\ ~args.generate_cups_key
    /\ \E i \in KeyCalls("lns") : calls[i].ok
    /\ ~args.fg_org_id
    /\ \E i \in Issued("get_gateway_connection_stats") : calls[i].not_found

C19_ScenarioCOneFailedStep ==
    (op = "provision" /\ existing.status = HTTP_NOT_FOUND /\ RegistrationFailed)
        => /\ Len(results) = 1
           /\ results[1].step = "register"
           /\ ~results[1].success
           /\ pc \in {"summary", "returned", "raised"}
           /\ pc = "returned" =>
                 /\ <<"Summary", 0, 1>> \in console
                 /\ files.log.steps = results

\* C19 witness: the run of scenario C has returned.
C19_Witness ==
    /\ op = "provision" /\ pc = "returned"
    /\ existing.status = HTTP_NOT_FOUND /\ RegistrationFailed
    /\ prev.registry.state = "absent"

\* C20: a provision run never issues more than one create call per kind of
\* credential and never lists keys; once a run whose registration did not
\* fail is past the credential steps, it has issued one create call for each
\* flag that is set and none for the others, and the registry holds the keys
\* it had at the start plus one for every create call it accepted.
C20_CredentialsAsConfigured ==
    op = "provision" =>
        /\ Cardinality(KeyCalls("lns")) <= 1
        /\ Cardinality(KeyCalls("cups")) <= 1
        /\ Issued("list_gateway_api_keys") = {}
        /\ PastCredentialSteps =>
              /\ Cardinality(KeyCalls("lns")) = IF args.generate_lns_key THEN 1 ELSE 0
              /\ Cardinality(KeyCalls("cups")) = IF args.generate_cups_key THEN 1 ELSE 0
              /\ registry.api_keys = prev.registry.api_keys + AcceptedKeyCalls

\* C20 witness: the second of two provision runs with the LNS flag set has
\* returned, and the registry holds a key of each run.
C20_Witness ==
    /\ op = "provision" /\ pc = "returned"
    /\ prev.op = "provision" /\ prev.registry.api_keys >= 1
    /\ args.generate_lns_key
    /\ registry.api_keys > prev.registry.api_keys

\* ------------------------------------------- one provisioner, used again

\* provisioner = GatewayProvisioner(api_key); provisioner.provision(...)
ConstructAndProvision ==
    /\ pc = "idle"
    /\ StartProvision

\* provisioner.provision(...) once more on the same object, with the same
\* arguments: provision starts with its local state fresh (credentials,
\* line 247) but self.results is set by __init__ alone (line 203), so the
\* step records of the earlier call stay.
ProvisionAgain ==
    /\ op = "provision"
    /\ pc = "returned"
    /\ nruns < ReuseCalls
    /\ pc' = "check_existing"
    /\ existing' = NoResponse
    /\ credentials' = NoCredentials
    /\ calls' = <<>>
    /\ files' = NoFiles
    /\ console' = {}
    /\ retval' = "none"
    /\ prev' = Outcome
    /\ nruns' = nruns + 1
    /\ UNCHANGED <<registry, op, args, results>>

ReuseNext ==
    \/ ConstructAndProvision
    \/ ProvisionAgain
    \/ CheckExisting
    \/ Register
    \/ UpdateServerAddress
    \/ SetLocation
    \/ CreateLnsKey
    \/ WriteLnsKeyFile
    \/ CreateCupsKey
    \/ WriteCupsKeyFile
    \/ VerifyNam1
    \/ StoreDb
    \/ PrintConnectionInfo
    \/ Summary

ReuseSpec == Init /\ [][ReuseNext]_vars

\* ------------------------------------------------- claims, third group

ReadApis == {"get_gateway", "get_gateway_connection_stats", "list_gateway_api_keys"}
MismatchFlag == "EU1: gateway_server_address should be NAM1_HOST"
SameCall(i, j) == calls[i].api = calls[j].api /\ calls[i].mask = calls[j].mask
CallFailed(i) == ~calls[i].ok
PastStoreDb == pc \in {"print_connection_info", "summary", "returned"}
PastLocation ==
    /\ ~RegistrationFailed
    /\ pc \in {"create_lns_key", "write_lns_key", "create_cups_key", "write_cups_key",
               "verify_nam1", "store_db", "print_connection_info", "summary",
               "returned", "raised"}

\* The step under which provision records a call ("none": the lookup and the
\* audit-store write, which are not calls of a step of their own here).
StepOf(c) ==
    IF c.api = "register_gateway" THEN "register"
    ELSE IF c.api = "update_gateway" /\ "gateway_server_address" \in c.mask
         THEN "update_server_address"
    ELSE IF c.api = "update_gateway" THEN "set_location"
    ELSE IF c.api = "create_gateway_api_key" /\ c.mask = {"lns"} THEN "create_lns_key"
    ELSE IF c.api = "create_gateway_api_key" THEN "create_cups_key"
    ELSE IF c.api = "get_gateway_connection_stats" THEN "verify_nam1"
    ELSE "none"
CallSucceeded(c) ==
    c.ok \/ (c.api = "get_gateway_connection_stats" /\ c.not_found)
StepCalls == SelectSeq(calls, LAMBDA c : StepOf(c) # "none")
CallRecords ==
    SelectSeq(results, LAMBDA r : r.step \notin {"check_existing", "store_db"})

\* The stage of a call in the order of provision.
Stage(c) ==
    IF c.api = "get_gateway" THEN 1
    ELSE IF c.api = "register_gateway" THEN 2
    ELSE IF c.api = "update_gateway" /\ "gateway_server_address" \in c.mask THEN 2
    ELSE IF c.api = "update_gateway" THEN 3
    ELSE IF c.api = "create_gateway_api_key" /\ c.mask = {"lns"} THEN 4
    ELSE IF c.api = "create_gateway_api_key" THEN 5
    ELSE IF c.api = "get_gateway_connection_stats" THEN 6
    ELSE 7

\* C21: check_gateway_status issues only read calls (the record, the
\* connection state, the key list), whatever the answers, writes no file,
\* and the registry's record stays what it was when the check began.
C21_StatusIsReadOnly ==
    op = "status" =>
        /\ \A i \in 1..Len(calls) : calls[i].api \in ReadApis
        /\ registry = prev.registry
        /\ files = NoFiles

\* C21 witness: a status check of a registered gateway has made its three
\* calls and returned.
C21_Witness ==
    /\ op = "status" /\ pc = "returned" /\ Len(calls) = 3
    /\ registry.state = "present"

\* C22: check_gateway_status prints the pointer warning exactly when the
\* lookup succeeded and the record's gateway_server_address (empty when the
\* record has none) is not NAM1_HOST; after a successful lookup it queries the
\* connection state and lists the keys, warning or not.
C22_StatusFlagsMismatch ==
    (op = "status" /\ pc # "s_eu1") =>
        /\ MismatchFlag \in console
              <=> (existing.ok /\ GetOr(existing.body, "") # NAM1_HOST)
        /\ (existing.ok /\ pc \in {"s_keys", "returned"})
              => Cardinality(Issued("get_gateway_connection_stats")) = 1
        /\ (existing.ok /\ pc = "returned")
              => Cardinality(Issued("list_gateway_api_keys")) = 1
        /\ ~existing.ok => (pc = "returned" /\ Len(calls) = 1)

\* C22 witness: the record has no gateway_server_address; the warning was
\* printed and the check went on to the connection state and the keys.
C22_Witness ==
    /\ op = "status" /\ pc = "returned"
    /\ existing.ok /\ existing.body = MISSING
    /\ MismatchFlag \in console
    /\ Len(calls) = 3

\* C23, as claimed: in a batch the run of one gateway never keeps the
\* remaining gateways from being processed (the batch stops only when no
\* gateway is left), and the log a run writes holds that run's steps.
C23_BatchGatewaysIndependent ==
    /\ pc = "raised" => nruns = BatchSize
    /\ (op = "provision" /\ pc = "returned") => files.log.steps = results

\* C24: a remote call that failed is never issued again in the same run; a
\* provision run begins with its lookup and issues no call twice: the
\* lookup, the registration, the pointer update, the location update, each
\* credential creation and the radio-plane query are issued at most once.
C24_NoRetry ==
    /\ \A i \in 1..Len(calls) :
          CallFailed(i) => \A j \in (i + 1)..Len(calls) : ~SameCall(i, j)
    /\ op = "provision" =>
          /\ LookupDone => calls[1].api = "get_gateway"
          /\ \A i \in 1..Len(calls) : \A j \in (i + 1)..Len(calls) : ~SameCall(i, j)

\* C24 witness: the location update and the LNS key call both failed, and the
\* run went through its remaining steps and returned.
C24_Witness ==
    /\ op = "provision" /\ pc = "returned"
    /\ \E i \in LocationUpdates : CallFailed(i)
    /\ \E i \in KeyCalls("lns") : CallFailed(i)
    /\ Issued("get_gateway_connection_stats") # {}

\* C25, as claimed: a run that is past step 7 without having written to the
\* audit store because the store is not configured (no fg_org_id, or the
\* connection settings unset) has recorded no store_db step.
C25_UnconfiguredStoreIsSkipped ==
    (op = "provision" /\ PastStoreDb /\ Issued("supabase_upsert") = {})
        => ~StepRecorded("store_db")

\* C26, as claimed: every provision run that has ended has persisted its log
\* exactly once, holding every step the run recorded.
C26_LogWrittenOncePerRun ==
    ProvisionEnded =>
        /\ files.provision_log = 1
        /\ files.log.steps = results

\* C27: the calls of provision after the lookup and the step records they
\* produce correspond one to one, in order: each call has its record under
\* the name of its step, successful exactly when the call was ok (or, for
\* the radio-plane query alone, answered not-found).
C27_EveryCallRecorded ==
    op = "provision" =>
        LET issued == StepCalls
            recorded == CallRecords
        IN  /\ Len(recorded) = Len(issued)
            /\ \A i \in 1..Len(issued) :
                  /\ i <= Len(recorded)
                  /\ recorded[i].step = StepOf(issued[i])
                  /\ recorded[i].success <=> CallSucceeded(issued[i])

\* C27 witness: a run with a failed location update, a created key and a
\* radio-plane answer of not-found has returned.
C27_Witness ==
    /\ op = "provision" /\ pc = "returned"
    /\ \E i \in LocationUpdates : ~calls[i].ok
    /\ \E i \in KeyCalls("cups") : calls[i].ok
    /\ \E i \in Issued("get_gateway_connection_stats") : calls[i].not_found
    /\ StepFailed("set_location") /\ ~StepFailed("verify_nam1")

C29_RegisterXorPointerUpdate ==
    (op = "provision" /\ Step2Done) =>
        /\ Issued("register_gateway") # {} <=> ~existing.ok
        /\ PointerUpdates # {}
              <=> (existing.ok /\ GetOr(existing.body, "") # NAM1_HOST)
        /\ ~(Issued("register_gateway") # {} /\ PointerUpdates # {})
        /\ (existing.ok /\ existing.body = NAM1_HOST)
              => (Issued("register_gateway") = {} /\ PointerUpdates = {})

\* C29 witness: the lookup returned the right pointer; the run went on to
\* other calls and returned with neither a registration nor a pointer update.
C29_Witness ==
    /\ op = "provision" /\ pc = "returned"
    /\ existing.ok /\ existing.body = NAM1_HOST
    /\ Issued("register_gateway") = {} /\ PointerUpdates = {}
    /\ LocationUpdates # {}

\* C30: in a run whose registration did not fail, the location update is
\* issued, and a set_location step recorded, exactly when latitude and
\* longitude were both supplied; after a failed registration it is not
\* issued; its field mask is {antennas}; and the pointer of the record is
\* NAM1_HOST when the run's registration or pointer update was accepted and
\* what it was at the start of the run otherwise, so no later step changes it.
C30_LocationOnlyWithBothCoordinates ==
    op = "provision" =>
        /\ PastLocation =>
              /\ LocationUpdates # {} <=> (args.latitude /\ args.longitude)
              /\ StepRecorded("set_location") <=> (args.latitude /\ args.longitude)
        /\ RegistrationFailed => LocationUpdates = {}
        /\ \A i \in LocationUpdates : calls[i].mask = {"antennas"}
        /\ Step2Done =>
              registry.gateway_server_address =
                  IF \/ \E i \in Issued("register_gateway") : calls[i].accepted
                     \/ \E i \in PointerUpdates : calls[i].accepted
                  THEN NAM1_HOST
                  ELSE prev.registry.gateway_server_address

\* C30 witness: the pointer update was refused and the location update
\* accepted; the run returned with the antennas set and the pointer still the
\* drifted one.
C30_Witness ==
    /\ op = "provision" /\ pc = "returned"
    /\ \E i \in LocationUpdates : calls[i].accepted
    /\ registry.antennas
    /\ registry.gateway_server_address = OTHER_HOST

\* ------------------------------------------------- claims, fourth group

\* The steps a call of provision that has returned attempted: the lookup when
\* it found the record, one for each call of steps 2 to 6, and the audit-store
\* write when fg_org_id was supplied and the registration did not fail.
AttemptedSteps ==
    (IF existing.ok THEN 1 ELSE 0)
        + Cardinality({i \in 1..Len(calls) : StepOf(calls[i]) # "none"})
        + (IF args.fg_org_id /\ ~RegistrationFailed THEN 1 ELSE 0)

\* C31, as claimed: when a call of provision has returned, the step list it
\* persisted and the total of its summary line cover the steps attempted in
\* that call and no others, also when the provisioner was used before.
C31_LogHoldsOnlyThisRun ==
    (op = "provision" /\ pc = "returned") =>
        /\ Len(files.log.steps) = AttemptedSteps
        /\ <<"Summary", SuccessCount(files.log.steps), AttemptedSteps>> \in console

====
